---- MODULE Spec2Model ----
(***************************************************************************)
(* Songs catalog: record model (models.py), MongoDB repository and audit   *)
(* log (database.py) and the use-case services (services.py).              *)
(*                                                                         *)
(* Encoding.  A Python str is a sequence of one-character strings.  A      *)
(* Python object or a MongoDB document is a function from the names of its *)
(* attributes / keys to their values; an attribute that is None is left    *)
(* out of the domain, exactly as to_dict leaves an absent optional field   *)
(* out of the document.  Timestamps are integers counting the store's      *)
(* millisecond ticks.                                                      *)
(***************************************************************************)
EXTENDS Integers, Sequences, FiniteSets, TLC

VARIABLES songs, history, nextId, clock, conn, mem, last, scene, procs

vars == <<songs, history, nextId, clock, conn, mem, last, scene, procs>>

(***************************************************************************)
(* Bounds                                                                  *)
(***************************************************************************)
MaxSongs == 1
MaxHist == 2
MaxClock == 1
\* inserts made through the long-lived connector
MaxDocs == 2
\* the most clock ticks between two consecutive use-cases of the scenario
MaxGap == 2

\* Song._validate range limits
MinYear == 1000
MaxYear == 3000
MinDuration == 0
\* SongsDatabase.get_history default limit
DefaultHistoryLimit == 10

(***************************************************************************)
(* Strings                                                                 *)
(***************************************************************************)
Whitespace == {" ", "\t"}

RECURSIVE LStrip(_)
LStrip(s) ==
  IF s = <<>> THEN <<>>
  ELSE IF Head(s) \in Whitespace THEN LStrip(Tail(s)) ELSE s

RECURSIVE RStrip(_)
RStrip(s) ==
  IF s = <<>> THEN <<>>
  ELSE IF s[Len(s)] \in Whitespace THEN RStrip(SubSeq(s, 1, Len(s) - 1)) ELSE s

\* str.strip()
Strip(s) == RStrip(LStrip(s))

\* truthiness of a str
Truthy(s) == s # <<>>

Has(f, k) == k \in DOMAIN f

\* dict.get(key, default)
Get(f, k, default) == IF k \in DOMAIN f THEN f[k] ELSE default

\* the dict with key k bound to v
Put(f, k, v) == (k :> v) @@ f

\* the dict f without the keys of ks
Drop(f, ks) == [k \in (DOMAIN f) \ ks |-> f[k]]

EmptyDict == [k \in {} |-> 0]

UpperCase == <<"A", "B", "C", "D", "E", "F", "G", "H", "I", "J", "K", "L", "M",
               "N", "O", "P", "Q", "R", "S", "T", "U", "V", "W", "X", "Y", "Z">>
LowerCase == <<"a", "b", "c", "d", "e", "f", "g", "h", "i", "j", "k", "l", "m",
               "n", "o", "p", "q", "r", "s", "t", "u", "v", "w", "x", "y", "z">>

\* case folding of one character
Lower(ch) ==
  IF \E i \in 1..26 : UpperCase[i] = ch
    THEN LowerCase[CHOOSE i \in 1..26 : UpperCase[i] = ch] ELSE ch

\* the smaller of two integers
Min(a, b) == IF a < b THEN a ELSE b

(***************************************************************************)
(* models.py: Song                                                         *)
(***************************************************************************)
SongAttrs == {"title", "artist", "username", "genre", "year", "duration",
              "created_at", "updated_at", "id"}

\* Song._validate with the lower year limit made exclusive
Validate_YearExclusive(s) ==
  IF ~Has(s, "title") \/ ~Truthy(s.title) \/ ~Truthy(Strip(s.title))
    THEN "Song title cannot be empty"
  ELSE IF ~Has(s, "artist") \/ ~Truthy(s.artist) \/ ~Truthy(Strip(s.artist))
    THEN "Artist name cannot be empty"
  ELSE IF ~Has(s, "username") \/ ~Truthy(s.username) \/ ~Truthy(Strip(s.username))
    THEN "Username cannot be empty"
  ELSE IF Has(s, "year") /\ (s.year <= MinYear \/ s.year > MaxYear)
    THEN "Year must be between 1000 and 3000"
  ELSE IF Has(s, "duration") /\ s.duration < MinDuration
    THEN "Duration cannot be negative"
  ELSE "ok"

\* Song._validate: "ok" or the ValueError it raises
Validate(s) ==
  IF ~Has(s, "title") \/ ~Truthy(s.title) \/ ~Truthy(Strip(s.title))
    THEN "Song title cannot be empty"
  ELSE IF ~Has(s, "artist") \/ ~Truthy(s.artist) \/ ~Truthy(Strip(s.artist))
    THEN "Artist name cannot be empty"
  ELSE IF ~Has(s, "username") \/ ~Truthy(s.username) \/ ~Truthy(Strip(s.username))
    THEN "Username cannot be empty"
  ELSE IF Has(s, "year") /\ (s.year < MinYear \/ s.year > MaxYear)
    THEN "Year must be between 1000 and 3000"
  ELSE IF Has(s, "duration") /\ s.duration < MinDuration
    THEN "Duration cannot be negative"
  ELSE "ok"

\* Song(...) with the dataclass defaults: created_at and updated_at are two
\* successive readings of the clock, id is None.  args holds the keyword
\* arguments that are not None.
NewSong(args, t1, t2) ==
  LET s == Put(Put(Drop(args, {"created_at", "updated_at", "id"}),
                   "created_at", t1), "updated_at", t2)
  IN [song |-> s, exc |-> IF Validate(s) = "ok" THEN "none" ELSE "ValueError"]

\* to_dict without the strip() calls
ToDict_NoStrip(s) ==
  LET base == [title |-> s.title, artist |-> s.artist, username |-> s.username,
               created_at |-> s.created_at, updated_at |-> s.updated_at]
      g == IF Has(s, "genre") /\ Truthy(s.genre)
             THEN Put(base, "genre", s.genre) ELSE base
      y == IF Has(s, "year") THEN Put(g, "year", s.year) ELSE g
      d == IF Has(s, "duration") THEN Put(y, "duration", s.duration) ELSE y
  IN IF Has(s, "id") THEN Put(d, "_id", s.id) ELSE d

\* Song.to_dict
ToDict(s) ==
  LET base == [title |-> Strip(s.title), artist |-> Strip(s.artist),
               username |-> Strip(s.username),
               created_at |-> s.created_at, updated_at |-> s.updated_at]
      g == IF Has(s, "genre") /\ Truthy(s.genre)
             THEN Put(base, "genre", Strip(s.genre)) ELSE base
      y == IF Has(s, "year") THEN Put(g, "year", s.year) ELSE g
      d == IF Has(s, "duration") THEN Put(y, "duration", s.duration) ELSE y
  IN IF Has(s, "id") THEN Put(d, "_id", s.id) ELSE d

\* Song.from_dict: the constructor run on the document's values; t is the
\* clock reading used when the document carries no timestamp.
FromDict(data, t) ==
  LET base == [title |-> Get(data, "title", <<>>),
               artist |-> Get(data, "artist", <<>>),
               username |-> Get(data, "username", <<>>),
               created_at |-> Get(data, "created_at", t),
               updated_at |-> Get(data, "updated_at", t)]
      g == IF Has(data, "genre") THEN Put(base, "genre", data.genre) ELSE base
      y == IF Has(data, "year") THEN Put(g, "year", data.year) ELSE g
      d == IF Has(data, "duration") THEN Put(y, "duration", data.duration) ELSE y
      s == IF Has(data, "_id") THEN Put(d, "id", data["_id"]) ELSE d
  IN [song |-> s, exc |-> IF Validate(s) = "ok" THEN "none" ELSE "ValueError"]

\* Song.update_fields without the closing _validate()
UpdateFields_NoValidate(s, kwargs, t) ==
  LET set == [k \in (DOMAIN s \cup (DOMAIN kwargs \cap SongAttrs)) |->
                IF k \in DOMAIN kwargs THEN kwargs[k] ELSE s[k]]
  IN [song |-> Put(set, "updated_at", t), exc |-> "none"]

\* Song.update_fields: the object after the call (it is assigned in place,
\* so it is what the caller holds whether or not the call raises) and the
\* exception raised.
UpdateFields(s, kwargs, t) ==
  LET set == [k \in (DOMAIN s \cup (DOMAIN kwargs \cap SongAttrs)) |->
                IF k \in DOMAIN kwargs THEN kwargs[k] ELSE s[k]]
      s2 == Put(set, "updated_at", t)
  IN [song |-> s2, exc |-> IF Validate(s2) = "ok" THEN "none" ELSE "ValueError"]

(***************************************************************************)
(* models.py: HistoryEntry                                                 *)
(***************************************************************************)
ValidActions == {"added", "updated", "deleted", "played", "viewed"}

\* HistoryEntry._validate: an unusual action is only logged.  The service
\* passes the action as one of its literals, a word with no whitespace.
ValidateEntry(e) ==
  IF ~Truthy(e.username) \/ ~Truthy(Strip(e.username))
    THEN "Username cannot be empty"
  ELSE IF e.action = ""
    THEN "Action cannot be empty"
  ELSE "ok"

\* HistoryEntry(username, action, song_title, song_artist)
NewEntry(username, action, title, artist, t) ==
  LET e == [username |-> username, action |-> action, song_title |-> title,
            song_artist |-> artist, timestamp |-> t]
  IN [entry |-> e, exc |-> IF ValidateEntry(e) = "ok" THEN "none" ELSE "ValueError"]

\* HistoryEntry.to_dict (the entry has no id before it is inserted)
EntryToDict(e) ==
  [username |-> Strip(e.username), action |-> e.action,
   song_title |-> Strip(e.song_title), song_artist |-> Strip(e.song_artist),
   timestamp |-> e.timestamp]

\* HistoryEntry.from_dict: the constructor run on the document's values
EntryFromDict(data, t) ==
  LET base == [username |-> Get(data, "username", <<>>),
               action |-> Get(data, "action", ""),
               song_title |-> Get(data, "song_title", <<>>),
               song_artist |-> Get(data, "song_artist", <<>>),
               timestamp |-> Get(data, "timestamp", t)]
      e == IF Has(data, "_id") THEN Put(base, "id", data["_id"]) ELSE base
  IN [entry |-> e, exc |-> IF ValidateEntry(e) = "ok" THEN "none" ELSE "ValueError"]

(***************************************************************************)
(* bson.ObjectId: 24 hexadecimal characters, compared by value             *)
(***************************************************************************)
OidLen == 24
HexDigits == {"0", "1", "2", "3", "4", "5", "6", "7", "8", "9",
              "a", "b", "c", "d", "e", "f", "A", "B", "C", "D", "E", "F"}

LowerHex(ch) ==
  CASE ch = "A" -> "a" [] ch = "B" -> "b" [] ch = "C" -> "c"
    [] ch = "D" -> "d" [] ch = "E" -> "e" [] ch = "F" -> "f" [] OTHER -> ch

\* ObjectId.is_valid on a str
ValidOid(str) == Len(str) = OidLen /\ \A i \in 1..Len(str) : str[i] \in HexDigits

\* ObjectId(str) for a valid str
ObjectId(str) == [i \in 1..Len(str) |-> LowerHex(str[i])]

DigitChar(n) == CASE n = 0 -> "0" [] n = 1 -> "1" [] n = 2 -> "2" [] n = 3 -> "3"
                  [] n = 4 -> "4" [] n = 5 -> "5" [] n = 6 -> "6" [] n = 7 -> "7"
                  [] n = 8 -> "8" [] OTHER -> "9"

\* the identifier the store generates for its n-th insert
GenOid(n) == [i \in 1..OidLen |-> IF i = OidLen THEN DigitChar(n) ELSE "0"]

(***************************************************************************)
(* The store as one invocation sees it.  A context c carries the two       *)
(* collections, the connector object (db), the clock, the round trips made *)
(* so far (trace) and the injected fault: <<point, n>> makes the n-th      *)
(* round trip to that point raise.  An invocation is short against the     *)
(* clock's granularity: the clock moves between invocations (Tick).        *)
(***************************************************************************)
NoFault == <<"none", 0>>

Count(trace, p) == Cardinality({i \in DOMAIN trace : trace[i] = p})

Faulty(c, p) == c.fault = <<p, Count(c.trace, p) + 1>>

Touch(c, p) == [c EXCEPT !.trace = Append(@, p)]

\* datetime.now(timezone.utc)
Now(c) == c.clock

Return(c, v) == [c |-> c, ret |-> v, exc |-> "none"]
Raise(c, e) == [c |-> c, ret |-> [kind |-> "raise"], exc |-> e]

VNone == [kind |-> "none"]
VBool(b) == [kind |-> "bool", val |-> b]
VSong(s) == [kind |-> "song", val |-> s]
VId(i) == [kind |-> "id", val |-> i]
VList(l) == [kind |-> "list", val |-> l]

\* collection.insert_one on the songs collection
InsertOne(c, doc) ==
  LET c1 == Touch(c, "insert_one") IN
  IF Faulty(c, "insert_one") THEN Raise(c1, "PyMongoError")
  ELSE LET oid == GenOid(c.nextId)
       IN Return([c1 EXCEPT !.songs = Put(c.songs, oid, Put(doc, "_id", oid)),
                            !.nextId = c.nextId + 1], VId(oid))

\* find_one with the username left out of the filter
FindOne_AnyOwner(c, oid, username) ==
  LET c1 == Touch(c, "find_one") IN
  IF Faulty(c, "find_one") THEN Raise(c1, "PyMongoError")
  ELSE IF oid \in DOMAIN c.songs
    THEN Return(c1, [kind |-> "doc", val |-> c.songs[oid]])
  ELSE Return(c1, VNone)

\* collection.find_one({"_id": oid, "username": username})
FindOne(c, oid, username) ==
  LET c1 == Touch(c, "find_one") IN
  IF Faulty(c, "find_one") THEN Raise(c1, "PyMongoError")
  ELSE IF oid \in DOMAIN c.songs /\ c.songs[oid].username = username
    THEN Return(c1, [kind |-> "doc", val |-> c.songs[oid]])
  ELSE Return(c1, VNone)

\* $set: the document with the keys of fields overwritten
ApplySet(doc, fields) ==
  [k \in DOMAIN doc \cup DOMAIN fields |->
     IF k \in DOMAIN fields THEN fields[k] ELSE doc[k]]

\* an update_one that inserts the document when the filter matches none
UpdateOne_Upsert(c, oid, username, fields) ==
  LET c1 == Touch(c, "update_one") IN
  IF Faulty(c, "update_one") THEN Raise(c1, "PyMongoError")
  ELSE IF oid \notin DOMAIN c.songs
    THEN Return([c1 EXCEPT !.songs = Put(c.songs, oid, Put(fields, "_id", oid))], 1)
  ELSE IF c.songs[oid].username # username THEN Return(c1, 0)
  ELSE IF Has(fields, "_id") /\ fields["_id"] # oid THEN Raise(c1, "PyMongoError")
  ELSE LET doc == ApplySet(c.songs[oid], fields)
       IN IF doc = c.songs[oid] THEN Return(c1, 0)
          ELSE Return([c1 EXCEPT !.songs[oid] = doc], 1)

\* collection.update_one({"_id": oid, "username": username}, {"$set": fields}):
\* modified_count; _id is immutable, a no-op write modifies nothing
UpdateOne(c, oid, username, fields) ==
  LET c1 == Touch(c, "update_one") IN
  IF Faulty(c, "update_one") THEN Raise(c1, "PyMongoError")
  ELSE IF ~(oid \in DOMAIN c.songs /\ c.songs[oid].username = username)
    THEN Return(c1, 0)
  ELSE IF Has(fields, "_id") /\ fields["_id"] # oid THEN Raise(c1, "PyMongoError")
  ELSE LET doc == ApplySet(c.songs[oid], fields)
       IN IF doc = c.songs[oid] THEN Return(c1, 0)
          ELSE Return([c1 EXCEPT !.songs[oid] = doc], 1)

\* delete_one that removes every document of the owner
DeleteOne_AllOfOwner(c, oid, username) ==
  LET c1 == Touch(c, "delete_one") IN
  IF Faulty(c, "delete_one") THEN Raise(c1, "PyMongoError")
  ELSE IF oid \in DOMAIN c.songs /\ c.songs[oid].username = username
    THEN Return([c1 EXCEPT !.songs =
                   Drop(c.songs, {o \in DOMAIN c.songs : c.songs[o].username = username})],
                1)
  ELSE Return(c1, 0)

\* collection.delete_one({"_id": oid, "username": username}): deleted_count
DeleteOne(c, oid, username) ==
  LET c1 == Touch(c, "delete_one") IN
  IF Faulty(c, "delete_one") THEN Raise(c1, "PyMongoError")
  ELSE IF oid \in DOMAIN c.songs /\ c.songs[oid].username = username
    THEN Return([c1 EXCEPT !.songs = Drop(c.songs, {oid})], 1)
  ELSE Return(c1, 0)

\* an insert that replaces the newest entry of the history
InsertHistory_Overwrites(c, doc) ==
  LET c1 == Touch(c, "insert_history") IN
  IF Faulty(c, "insert_history") THEN Raise(c1, "PyMongoError")
  ELSE LET oid == IF c.history = <<>> THEN 1 ELSE Len(c.history)
       IN Return([c1 EXCEPT !.history =
                    Append(SubSeq(c.history, 1, oid - 1), Put(doc, "_id", oid))],
                 VId(oid))

\* collection.insert_one on the history collection
InsertHistory(c, doc) ==
  LET c1 == Touch(c, "insert_history") IN
  IF Faulty(c, "insert_history") THEN Raise(c1, "PyMongoError")
  ELSE LET oid == Len(c.history) + 1
       IN Return([c1 EXCEPT !.history = Append(c.history, Put(doc, "_id", oid))],
                 VId(oid))

\* "$regex" with "$options": "i".  The patterns considered are made of
\* letters, "." and "(": a letter matches itself in either case, "." matches
\* any character but a newline, and a pattern with an unclosed "(" does not
\* compile.
RegexCompiles(p) == \A i \in 1..Len(p) : p[i] # "("

CharMatches(pc, ch) == (pc = "." /\ ch # "\n") \/ (pc # "." /\ Lower(pc) = Lower(ch))

\* the pattern matches somewhere in the text
RegexSearch(p, text) ==
  \E off \in 0..(Len(text) - Len(p)) :
    \A i \in 1..Len(p) : CharMatches(p[i], text[off + i])

\* the filter of a find on the songs collection: query may hold "username"
\* and "regex" (the "$or" of the pattern on title and artist)
Matches(doc, query) ==
  /\ Has(query, "username") => (Has(doc, "username") /\ doc.username = query.username)
  /\ Has(query, "regex") =>
       \/ Has(doc, "title") /\ RegexSearch(query.regex, doc.title)
       \/ Has(doc, "artist") /\ RegexSearch(query.regex, doc.artist)

\* the orders in which the store may scan the members of S
Scans(S) ==
  {q \in [1..Cardinality(S) -> S] : \A i, j \in DOMAIN q : i # j => q[i] # q[j]}

\* the members of seq that satisfy keep, in order
RECURSIVE Filter(_, _)
Filter(seq, keep) ==
  IF seq = <<>> THEN <<>>
  ELSE IF Head(seq) \in keep THEN <<Head(seq)>> \o Filter(Tail(seq), keep)
  ELSE Filter(Tail(seq), keep)

RECURSIVE InsertDesc(_, _, _)
InsertDesc(sorted, d, key) ==
  IF sorted = <<>> THEN <<d>>
  ELSE IF d[key] > Head(sorted)[key] THEN <<d>> \o sorted
  ELSE <<Head(sorted)>> \o InsertDesc(Tail(sorted), d, key)

\* cursor.sort(key, -1): greater keys first; documents with equal keys stay
\* in the order of the scan, which is any order
RECURSIVE SortDesc(_, _)
SortDesc(docs, key) ==
  IF docs = <<>> THEN <<>>
  ELSE InsertDesc(SortDesc(SubSeq(docs, 1, Len(docs) - 1), key), docs[Len(docs)], key)

\* cursor.limit(n): 0 is no limit, a negative n returns the first -n
Limit(docs, n) ==
  IF n = 0 THEN docs
  ELSE SubSeq(docs, 1, Min(IF n < 0 THEN 0 - n ELSE n, Len(docs)))

\* find that leaves the sort out
Find_Unsorted(c, query, sorted, limit, scan) ==
  LET c1 == Touch(c, "find") IN
  IF Faulty(c, "find") THEN Raise(c1, "PyMongoError")
  ELSE IF Has(query, "regex") /\ ~RegexCompiles(query.regex)
    THEN Raise(c1, "PyMongoError")
  ELSE LET hit == Filter(scan, {o \in DOMAIN c.songs : Matches(c.songs[o], query)})
           docs == [i \in 1..Len(hit) |-> c.songs[hit[i]]]
       IN Return(c1, Limit(docs, limit))

\* songs_collection.find(query), sorted by created_at descending when
\* sorted, cut by limit, read to the end; scan is the order in which the
\* store visits the identifiers
Find(c, query, sorted, limit, scan) ==
  LET c1 == Touch(c, "find") IN
  IF Faulty(c, "find") THEN Raise(c1, "PyMongoError")
  ELSE IF Has(query, "regex") /\ ~RegexCompiles(query.regex)
    THEN Raise(c1, "PyMongoError")
  ELSE LET hit == Filter(scan, {o \in DOMAIN c.songs : Matches(c.songs[o], query)})
           docs == [i \in 1..Len(hit) |-> c.songs[hit[i]]]
       IN Return(c1, Limit(IF sorted THEN SortDesc(docs, "created_at") ELSE docs,
                           limit))

\* a find on the history that leaves out the sort
FindHistory_Unsorted(c, username, limit, scan) ==
  LET c1 == Touch(c, "find_history") IN
  IF Faulty(c, "find_history") THEN Raise(c1, "PyMongoError")
  ELSE LET hit == Filter(scan, {i \in DOMAIN c.history :
                                  c.history[i].username = username})
           docs == [i \in 1..Len(hit) |-> c.history[hit[i]]]
       IN Return(c1, Limit(docs, limit))

\* history_collection.find({"username": username}).sort("timestamp", -1)
\* .limit(limit), read to the end; scan is the order in which the store
\* visits the entries
FindHistory(c, username, limit, scan) ==
  LET c1 == Touch(c, "find_history") IN
  IF Faulty(c, "find_history") THEN Raise(c1, "PyMongoError")
  ELSE LET hit == Filter(scan, {i \in DOMAIN c.history :
                                  c.history[i].username = username})
           docs == [i \in 1..Len(hit) |-> c.history[hit[i]]]
       IN Return(c1, Limit(SortDesc(docs, "timestamp"), limit))

(***************************************************************************)
(* database.py: SongsDatabase.  A method's local variable is bound by      *)
(* Let(value, LAMBDA name : rest of the method).                           *)
(***************************************************************************)
Let(v, K(_)) == K(v)

\* SongsDatabase(): no client, not connected
NewDb == [client |-> FALSE, connected |-> FALSE]

\* SongsDatabase.connect: the client is created, then pinged; a failure of
\* _create_indexes is only logged and changes nothing here
Connect(c) ==
  Let([Touch(c, "connect") EXCEPT !.db.client = TRUE], LAMBDA c1 :
    IF Faulty(c, "connect") THEN Raise(c1, "DatabaseError")
    ELSE Return([c1 EXCEPT !.db.connected = TRUE], VBool(TRUE)))

\* close that leaves the connected flag as it is
Close_KeepsConnected(c) ==
  IF c.db.client THEN Touch(c, "close") ELSE c

\* SongsDatabase.close
Close(c) ==
  IF c.db.client THEN [Touch(c, "close") EXCEPT !.db.connected = FALSE] ELSE c

\* SongsDatabase.add_song
DbAddSong(c, song) ==
  IF ~c.db.connected THEN Raise(c, "DatabaseError")
  ELSE Let(InsertOne(c, ToDict(song)), LAMBDA r :
    IF r.exc # "none" THEN Raise(r.c, "DatabaseError") ELSE r)

\* SongsDatabase.get_song_by_id
DbGetSongById(c, username, song_id) ==
  IF ~c.db.connected THEN Raise(c, "DatabaseError")
  ELSE IF ~ValidOid(song_id) THEN Raise(c, "DatabaseError")
  ELSE Let(FindOne(c, ObjectId(song_id), username), LAMBDA r :
    IF r.exc # "none" THEN Raise(r.c, "DatabaseError")
    ELSE IF r.ret.kind = "none" THEN Return(r.c, VNone)
    ELSE Let(FromDict(r.ret.val, Now(r.c)), LAMBDA f :
      IF f.exc # "none" THEN Raise(r.c, "DatabaseError")
      ELSE Return(r.c, VSong(f.song))))

\* SongsDatabase.update_song
DbUpdateSong(c, username, song_id, kwargs) ==
  IF ~c.db.connected THEN Raise(c, "DatabaseError")
  ELSE Let(DbGetSongById(c, username, song_id), LAMBDA g :
    IF g.exc # "none" THEN Raise(g.c, "DatabaseError")
    ELSE IF g.ret.kind = "none" THEN Return(g.c, VBool(FALSE))
    ELSE Let(UpdateFields(g.ret.val, kwargs, Now(g.c)), LAMBDA u :
      IF u.exc # "none" THEN Raise(g.c, "DatabaseError")
      ELSE Let(UpdateOne(g.c, ObjectId(song_id), username, ToDict(u.song)), LAMBDA w :
        IF w.exc # "none" THEN Raise(w.c, "DatabaseError")
        ELSE Return(w.c, VBool(w.ret > 0)))))

\* delete_song with the username left out of both filters
DbDeleteSong_Unscoped(c, username, song_id) ==
  IF ~c.db.connected THEN Raise(c, "DatabaseError")
  ELSE IF ~ValidOid(song_id) THEN Raise(c, "DatabaseError")
  ELSE Let(FindOne_AnyOwner(c, ObjectId(song_id), username), LAMBDA g :
    IF g.exc # "none" THEN Raise(g.c, "DatabaseError")
    ELSE IF g.ret.kind = "none" THEN Return(g.c, VNone)
    ELSE Return([Touch(g.c, "delete_one") EXCEPT
                   !.songs = Drop(g.c.songs, {ObjectId(song_id)})],
                VSong(FromDict(g.ret.val, Now(g.c)).song)))

\* SongsDatabase.delete_song
DbDeleteSong(c, username, song_id) ==
  IF ~c.db.connected THEN Raise(c, "DatabaseError")
  ELSE Let(DbGetSongById(c, username, song_id), LAMBDA g :
    IF g.exc # "none" THEN Raise(g.c, "DatabaseError")
    ELSE IF g.ret.kind = "none" THEN Return(g.c, VNone)
    ELSE Let(DeleteOne(g.c, ObjectId(song_id), username), LAMBDA w :
      IF w.exc # "none" THEN Raise(w.c, "DatabaseError")
      ELSE IF w.ret > 0 THEN Return(w.c, g.ret)
      ELSE Return(w.c, VNone)))

\* SongsDatabase.add_history_entry
DbAddHistoryEntry(c, entry) ==
  IF ~c.db.connected THEN Raise(c, "DatabaseError")
  ELSE Let(InsertHistory(c, EntryToDict(entry)), LAMBDA r :
    IF r.exc # "none" THEN Raise(r.c, "DatabaseError") ELSE r)

\* the loop that turns the documents of a cursor into Songs
SongsOf(c, docs) ==
  IF \E i \in DOMAIN docs : FromDict(docs[i], Now(c)).exc # "none"
    THEN Raise(c, "DatabaseError")
  ELSE Return(c, VList([i \in DOMAIN docs |-> FromDict(docs[i], Now(c)).song]))

\* SongsDatabase.get_songs; args may hold "username" and "limit"
DbGetSongs(c, args, scan) ==
  IF ~c.db.connected THEN Raise(c, "DatabaseError")
  ELSE Let(Find(c, IF Has(args, "username") /\ Truthy(args.username)
                     THEN [username |-> args.username] ELSE EmptyDict,
                TRUE,
                IF Has(args, "limit") THEN args.limit ELSE 0,
                scan), LAMBDA r :
    IF r.exc # "none" THEN Raise(r.c, "DatabaseError") ELSE SongsOf(r.c, r.ret))

\* SongsDatabase.search_songs
DbSearchSongs(c, username, search_term, scan) ==
  IF ~c.db.connected THEN Raise(c, "DatabaseError")
  ELSE Let(Find(c, [username |-> username, regex |-> search_term], FALSE, 0, scan),
           LAMBDA r :
    IF r.exc # "none" THEN Raise(r.c, "DatabaseError") ELSE SongsOf(r.c, r.ret))

\* get_history without _ensure_connected
DbGetHistory_NoEnsure(c, username, limit, scan) ==
  Let(FindHistory(c, username, limit, scan), LAMBDA r :
    IF r.exc # "none" THEN Raise(r.c, "DatabaseError")
    ELSE IF \E i \in DOMAIN r.ret : EntryFromDict(r.ret[i], Now(r.c)).exc # "none"
      THEN Raise(r.c, "DatabaseError")
    ELSE Return(r.c, VList([i \in DOMAIN r.ret |->
                              EntryFromDict(r.ret[i], Now(r.c)).entry])))

\* SongsDatabase.get_history
DbGetHistory(c, username, limit, scan) ==
  IF ~c.db.connected THEN Raise(c, "DatabaseError")
  ELSE Let(FindHistory(c, username, limit, scan), LAMBDA r :
    IF r.exc # "none" THEN Raise(r.c, "DatabaseError")
    ELSE IF \E i \in DOMAIN r.ret : EntryFromDict(r.ret[i], Now(r.c)).exc # "none"
      THEN Raise(r.c, "DatabaseError")
    ELSE Return(r.c, VList([i \in DOMAIN r.ret |->
                              EntryFromDict(r.ret[i], Now(r.c)).entry])))

(***************************************************************************)
(* services.py: SongsService, PlaybackService.  Every use-case opens its   *)
(* own DatabaseManager: a new SongsDatabase, connect() on entry, close()   *)
(* on exit.                                                                *)
(***************************************************************************)
\* DatabaseManager.__enter__
Enter(c) == Connect([c EXCEPT !.db = NewDb])

\* DatabaseManager.__exit__ followed by the handlers of a use-case that has
\* an "except ValueError" clause: the class the caller sees
WrapV(e) == IF e \in {"ValueError", "DatabaseError"} THEN e ELSE "Exception"

\* the same for a use-case without an "except ValueError" clause
WrapD(e) == IF e = "DatabaseError" THEN e ELSE "Exception"

\* _log_history without its try/except
LogHistory_Propagates(c, username, action, title, artist) ==
  Let(NewEntry(username, action, title, artist, Now(c)), LAMBDA e :
    IF e.exc # "none" THEN Raise(c, e.exc)
    ELSE Let(DbAddHistoryEntry(c, e.entry), LAMBDA r :
      IF r.exc # "none" THEN Raise(r.c, r.exc) ELSE Return(r.c, VNone)))

\* SongsService._log_history
LogHistory(c, username, action, title, artist) ==
  Let(NewEntry(username, action, title, artist, Now(c)), LAMBDA e :
    IF e.exc # "none" THEN Return(c, VNone)
    ELSE Return(DbAddHistoryEntry(c, e.entry).c, VNone))

\* the tail of a use-case once the history is logged: leave the "with"
\* block and return v, or hand an exception to the handlers (valueClause:
\* the use-case has an "except ValueError" clause)
Leave(h, v, valueClause) ==
  IF h.exc = "none" THEN Return(Close(h.c), v)
  ELSE Raise(Close(h.c), IF valueClause THEN WrapV(h.exc) ELSE WrapD(h.exc))

\* SongsService.add_song; args are the keyword arguments that are not None
SvcAddSong(c, username, args) ==
  Let(NewSong(Put(args, "username", username), Now(c), Now(c)), LAMBDA s :
    IF s.exc # "none" THEN Raise(c, WrapV(s.exc))
    ELSE Let(Enter(c), LAMBDA m :
      IF m.exc # "none" THEN Raise(m.c, WrapV(m.exc))
      ELSE Let(DbAddSong(m.c, s.song), LAMBDA a :
        IF a.exc # "none" THEN Raise(Close(a.c), WrapV(a.exc))
        ELSE Leave(LogHistory(a.c, username, "added", args.title, args.artist),
                   VBool(TRUE), TRUE))))

\* SongsService.list_songs; args may hold "username" and "limit"
SvcListSongs(c, args, scan) ==
  Let(Enter(c), LAMBDA m :
    IF m.exc # "none" THEN Raise(m.c, WrapD(m.exc))
    ELSE Let(DbGetSongs(m.c, args, scan), LAMBDA r : Leave(r, r.ret, FALSE)))

\* search_songs without the test of the search term
SvcSearchSongs_NoCheck(c, username, search_term, scan) ==
  Let(Enter(c), LAMBDA m :
    IF m.exc # "none" THEN Raise(m.c, WrapV(m.exc))
    ELSE Let(DbSearchSongs(m.c, username, Strip(search_term), scan), LAMBDA r :
      Leave(r, r.ret, TRUE)))

\* SongsService.search_songs
SvcSearchSongs(c, username, search_term, scan) ==
  IF ~Truthy(Strip(search_term)) THEN Raise(c, "ValueError")
  ELSE Let(Enter(c), LAMBDA m :
    IF m.exc # "none" THEN Raise(m.c, WrapV(m.exc))
    ELSE Let(DbSearchSongs(m.c, username, Strip(search_term), scan), LAMBDA r :
      Leave(r, r.ret, TRUE)))

\* SongsService.get_history; limit is DefaultHistoryLimit when not given
SvcGetHistory(c, username, limit, scan) ==
  Let(Enter(c), LAMBDA m :
    IF m.exc # "none" THEN Raise(m.c, WrapD(m.exc))
    ELSE Let(DbGetHistory(m.c, username, limit, scan), LAMBDA r :
      Leave(r, r.ret, FALSE)))

\* SongsService.get_song
SvcGetSong(c, username, song_id) ==
  Let(Enter(c), LAMBDA m :
    IF m.exc # "none" THEN Raise(m.c, WrapD(m.exc))
    ELSE Let(DbGetSongById(m.c, username, song_id), LAMBDA g :
      IF g.exc # "none" THEN Raise(Close(g.c), WrapD(g.exc))
      ELSE IF g.ret.kind = "none" THEN Return(Close(g.c), VNone)
      ELSE Leave(LogHistory(g.c, username, "viewed", g.ret.val.title, g.ret.val.artist),
                 g.ret, FALSE)))

\* update_song that raises when the record is not found
SvcUpdateSong_RaisesOnMiss(c, username, song_id, kwargs) ==
  IF DOMAIN kwargs = {} THEN Raise(c, "ValueError")
  ELSE Let(Enter(c), LAMBDA m :
    IF m.exc # "none" THEN Raise(m.c, WrapV(m.exc))
    ELSE Let(DbGetSongById(m.c, username, song_id), LAMBDA g :
      IF g.exc # "none" THEN Raise(Close(g.c), WrapV(g.exc))
      ELSE IF g.ret.kind = "none" THEN Raise(Close(g.c), "ValueError")
      ELSE Let(DbUpdateSong(g.c, username, song_id, kwargs), LAMBDA u :
        IF u.exc # "none" THEN Raise(Close(u.c), WrapV(u.exc))
        ELSE IF u.ret.val
          THEN Leave(LogHistory(u.c, username, "updated",
                                g.ret.val.title, g.ret.val.artist), u.ret, TRUE)
        ELSE Return(Close(u.c), u.ret))))

\* SongsService.update_song; kwargs maps the supplied keywords to values
\* that are not None
SvcUpdateSong(c, username, song_id, kwargs) ==
  IF DOMAIN kwargs = {} THEN Raise(c, "ValueError")
  ELSE Let(Enter(c), LAMBDA m :
    IF m.exc # "none" THEN Raise(m.c, WrapV(m.exc))
    ELSE Let(DbGetSongById(m.c, username, song_id), LAMBDA g :
      IF g.exc # "none" THEN Raise(Close(g.c), WrapV(g.exc))
      ELSE IF g.ret.kind = "none" THEN Return(Close(g.c), VBool(FALSE))
      ELSE Let(DbUpdateSong(g.c, username, song_id, kwargs), LAMBDA u :
        IF u.exc # "none" THEN Raise(Close(u.c), WrapV(u.exc))
        ELSE IF u.ret.val
          THEN Leave(LogHistory(u.c, username, "updated",
                                g.ret.val.title, g.ret.val.artist), u.ret, TRUE)
        ELSE Return(Close(u.c), u.ret))))

\* delete_song that logs the deletion before it asks the repository for it
SvcDeleteSong_LogsFirst(c, username, song_id) ==
  Let(Enter(c), LAMBDA m :
    IF m.exc # "none" THEN Raise(m.c, WrapD(m.exc))
    ELSE Let(DbGetSongById(m.c, username, song_id), LAMBDA g :
      IF g.exc # "none" THEN Raise(Close(g.c), WrapD(g.exc))
      ELSE IF g.ret.kind = "none" THEN Return(Close(g.c), VBool(FALSE))
      ELSE Let(DbDeleteSong(LogHistory(g.c, username, "deleted", g.ret.val.title,
                                       g.ret.val.artist).c, username, song_id),
               LAMBDA d :
        IF d.exc # "none" THEN Raise(Close(d.c), WrapD(d.exc))
        ELSE Return(Close(d.c), VBool(d.ret.kind # "none")))))

\* SongsService.delete_song
SvcDeleteSong(c, username, song_id) ==
  Let(Enter(c), LAMBDA m :
    IF m.exc # "none" THEN Raise(m.c, WrapD(m.exc))
    ELSE Let(DbDeleteSong(m.c, username, song_id), LAMBDA d :
      IF d.exc # "none" THEN Raise(Close(d.c), WrapD(d.exc))
      ELSE IF d.ret.kind = "none" THEN Return(Close(d.c), VBool(FALSE))
      ELSE Leave(LogHistory(d.c, username, "deleted", d.ret.val.title, d.ret.val.artist),
                 VBool(TRUE), FALSE)))

\* what play_song returns after its "with" block: True, or False from
\* "except Exception"
Played(h) ==
  IF h.exc # "none" THEN Return(Close(h.c), VBool(FALSE))
  ELSE Return(Close(h.c), VBool(TRUE))

\* PlaybackService.play_song: every exception becomes the result False
PlaySong(c, username, song_id) ==
  Let(SvcGetSong(c, username, song_id), LAMBDA g :
    IF g.exc # "none" THEN Return(g.c, VBool(FALSE))
    ELSE IF g.ret.kind = "none" THEN Return(g.c, VBool(FALSE))
    ELSE Let(Enter(g.c), LAMBDA m :
      IF m.exc # "none" THEN Return(m.c, VBool(FALSE))
      ELSE Played(LogHistory(m.c, username, "played",
                             g.ret.val.title, g.ret.val.artist))))

(***************************************************************************)
(* Inputs                                                                  *)
(***************************************************************************)
Users == {<<"u">>, <<"v">>}

\* identifiers a caller can pass: the ones the store hands out (each names
\* no document before its insert and after its delete) and one that is no
\* ObjectId
BadId == <<"z", "z">>
IdInputs == {GenOid(i) : i \in 1..MaxSongs} \cup {BadId}

\* the same for the long-lived connector
RepoIdInputs == {GenOid(i) : i \in 1..MaxDocs} \cup {BadId}

\* keyword arguments of add_song besides the username
AddInputs ==
  { [title |-> <<"a", " ">>, artist |-> <<"x">>, year |-> 1000],
    [title |-> <<" ">>, artist |-> <<"x">>] }

\* arguments of list_songs
ListInputs ==
  { EmptyDict, [username |-> <<"u">>], [username |-> <<"v">>, limit |-> 1],
    [username |-> <<"u">>, limit |-> 0] }

\* search terms
TermInputs == {<<>>, <<" ", "\t">>, <<"A", " ">>}

\* limits of get_history
LimitInputs == {DefaultHistoryLimit, 1}

\* keyword arguments of update_song
UpdateInputs ==
  { [title |-> <<"a">>], [title |-> <<"b">>], [title |-> <<>>],
    [artist |-> <<" ">>], [year |-> 999],
    [duration |-> 0 - 1], EmptyDict }

(***************************************************************************)
(* State: the two collections, the store's identifier counter, the clock,  *)
(* a long-lived connector (conn), an in-memory Song (mem), the invocation  *)
(* whose result the caller has not yet taken (last), the position in the   *)
(* end-to-end scenario with the identifier the caller has learned (scene)  *)
(* and the use-cases running concurrently, each with its local variables   *)
(* (procs).                                                                *)
(***************************************************************************)
\* the concurrent callers
Procs == {1, 2}

\* a caller that has not started its use-case
IdleProc == [pc |-> "idle"]

Ctx(db, fault) ==
  [songs |-> songs, history |-> history, nextId |-> nextId, clock |-> clock,
   db |-> db, trace |-> <<>>, fault |-> fault]

Idle == [op |-> "idle"]

Outcome(op, user, id, kw, fault, r) ==
  [op |-> op, user |-> user, id |-> id, kw |-> kw, fault |-> fault,
   ret |-> r.ret, exc |-> r.exc, trace |-> r.c.trace]

\* the effect of one invocation on the store, within the bounds
Bounded(r, inserts) ==
  /\ last = Idle
  /\ Len(r.c.history) <= MaxHist
  /\ r.c.nextId <= inserts + 1
  /\ songs' = r.c.songs
  /\ history' = r.c.history
  /\ nextId' = r.c.nextId
  /\ UNCHANGED clock

Commit(r) == Bounded(r, MaxSongs)

Init ==
  /\ songs = EmptyDict
  /\ history = <<>>
  /\ nextId = 1
  /\ clock = 0
  /\ conn = NewDb
  /\ mem = EmptyDict
  /\ last = Idle
  /\ scene = [n |-> 0, id |-> <<>>]
  /\ procs = [p \in Procs |-> IdleProc]

\* the caller takes the result of the invocation
Done ==
  /\ last # Idle
  /\ last' = Idle
  /\ UNCHANGED <<songs, history, nextId, clock, conn, mem, scene, procs>>

\* time passes
Tick ==
  /\ last = Idle
  /\ clock < MaxClock
  /\ clock' = clock + 1
  /\ UNCHANGED <<songs, history, nextId, conn, mem, last, scene, procs>>

(***************************************************************************)
(* Use-cases                                                               *)
(***************************************************************************)
\* one use-case invocation whose result is r
Invoke(op, user, id, kw, fault, r) ==
  /\ Commit(r)
  /\ last' = Outcome(op, user, id, kw, fault, r)
  /\ UNCHANGED <<conn, mem, scene, procs>>

AddSong ==
  \E user \in Users, args \in AddInputs,
     fault \in {NoFault, <<"connect", 1>>, <<"insert_one", 1>>, <<"insert_history", 1>>} :
    Invoke("add", user, <<>>, args, fault,
           SvcAddSong(Ctx(NewDb, fault), user, args))

GetSong ==
  \E user \in Users, id \in IdInputs,
     fault \in {NoFault, <<"connect", 1>>, <<"find_one", 1>>, <<"insert_history", 1>>} :
    Invoke("get", user, id, EmptyDict, fault,
           SvcGetSong(Ctx(NewDb, fault), user, id))

UpdateSong ==
  \E user \in Users, id \in IdInputs, kw \in UpdateInputs,
     fault \in {NoFault, <<"connect", 1>>, <<"find_one", 1>>, <<"find_one", 2>>,
                <<"update_one", 1>>, <<"insert_history", 1>>} :
    Invoke("update", user, id, kw, fault,
           SvcUpdateSong(Ctx(NewDb, fault), user, id, kw))

DeleteSong ==
  \E user \in Users, id \in IdInputs,
     fault \in {NoFault, <<"connect", 1>>, <<"find_one", 1>>, <<"delete_one", 1>>,
                <<"insert_history", 1>>} :
    Invoke("delete", user, id, EmptyDict, fault,
           SvcDeleteSong(Ctx(NewDb, fault), user, id))

Play ==
  \E user \in Users, id \in IdInputs,
     fault \in {NoFault, <<"connect", 1>>, <<"connect", 2>>, <<"find_one", 1>>,
                <<"insert_history", 1>>, <<"insert_history", 2>>} :
    Invoke("play", user, id, EmptyDict, fault,
           PlaySong(Ctx(NewDb, fault), user, id))

ListSongs ==
  \E args \in ListInputs, scan \in Scans(DOMAIN songs),
     fault \in {NoFault, <<"connect", 1>>, <<"find", 1>>} :
    Invoke("list", Get(args, "username", <<>>), <<>>, args, fault,
           SvcListSongs(Ctx(NewDb, fault), args, scan))

SearchSongs ==
  \E user \in Users, term \in TermInputs, scan \in Scans(DOMAIN songs),
     fault \in {NoFault, <<"connect", 1>>, <<"find", 1>>} :
    Invoke("search", user, <<>>, [term |-> term], fault,
           SvcSearchSongs(Ctx(NewDb, fault), user, term, scan))

GetHistory ==
  \E user \in Users, limit \in LimitInputs, scan \in Scans(DOMAIN history),
     fault \in {NoFault, <<"connect", 1>>, <<"find_history", 1>>} :
    Invoke("history", user, <<>>, [limit |-> limit], fault,
           SvcGetHistory(Ctx(NewDb, fault), user, limit, scan))

Next ==
  \/ AddSong \/ GetSong \/ UpdateSong \/ DeleteSong \/ Play
  \/ ListSongs \/ SearchSongs \/ GetHistory \/ Tick \/ Done

Spec == Init /\ [][Next]_vars

(***************************************************************************)
(* The repository called directly on one long-lived connector              *)
(***************************************************************************)
\* one call on the connector whose result is r
Call(op, user, id, kw, fault, r) ==
  /\ Bounded(r, MaxDocs)
  /\ conn' = r.c.db
  /\ last' = Outcome(op, user, id, kw, fault, r)
  /\ UNCHANGED <<mem, scene, procs>>

DbConnect ==
  \E fault \in {NoFault, <<"connect", 1>>} :
    Call("connect", <<>>, <<>>, EmptyDict, fault, Connect(Ctx(conn, fault)))

DbClose ==
  Call("close", <<>>, <<>>, EmptyDict, NoFault,
       Return(Close(Ctx(conn, NoFault)), VNone))

\* add_song is handed a Song the caller has constructed
DbAdd ==
  \E user \in Users, args \in AddInputs, fault \in {NoFault, <<"insert_one", 1>>} :
    /\ NewSong(Put(args, "username", user), clock, clock).exc = "none"
    /\ Call("db_add", user, <<>>, args, fault,
            DbAddSong(Ctx(conn, fault),
                      NewSong(Put(args, "username", user), clock, clock).song))

DbGet ==
  \E user \in Users, id \in RepoIdInputs, fault \in {NoFault, <<"find_one", 1>>} :
    Call("db_get", user, id, EmptyDict, fault,
         DbGetSongById(Ctx(conn, fault), user, id))

\* update_song takes any keyword that names an attribute of Song, the
\* timestamps included
DbUpdate ==
  \E user \in Users, id \in RepoIdInputs,
     kw \in UpdateInputs \cup {[created_at |-> clock + 1]},
     fault \in {NoFault, <<"find_one", 1>>, <<"update_one", 1>>} :
    Call("db_update", user, id, kw, fault,
         DbUpdateSong(Ctx(conn, fault), user, id, kw))

DbDelete ==
  \E user \in Users, id \in RepoIdInputs,
     fault \in {NoFault, <<"find_one", 1>>, <<"delete_one", 1>>} :
    Call("db_delete", user, id, EmptyDict, fault,
         DbDeleteSong(Ctx(conn, fault), user, id))

\* arguments of get_songs
RepoListInputs ==
  { EmptyDict, [username |-> <<>>], [username |-> <<"u">>],
    [username |-> <<"u">>, limit |-> 1], [username |-> <<"u">>, limit |-> 0],
    [limit |-> 0 - 1] }

\* search terms as the service hands them on: stripped and not empty
RepoTermInputs == {<<"A">>, <<"b">>, <<".">>, <<"(">>}

\* limits of get_history
RepoLimitInputs == {DefaultHistoryLimit, 1, 0}

DbList ==
  \E args \in RepoListInputs, scan \in Scans(DOMAIN songs),
     fault \in {NoFault, <<"find", 1>>} :
    Call("db_list", Get(args, "username", <<>>), <<>>, args, fault,
         DbGetSongs(Ctx(conn, fault), args, scan))

DbSearch ==
  \E user \in Users, term \in RepoTermInputs, scan \in Scans(DOMAIN songs),
     fault \in {NoFault, <<"find", 1>>} :
    Call("db_search", user, <<>>, [term |-> term], fault,
         DbSearchSongs(Ctx(conn, fault), user, term, scan))

\* add_history_entry is handed a HistoryEntry the caller has constructed
DbAppend ==
  \E user \in Users, fault \in {NoFault, <<"insert_history", 1>>} :
    Call("db_append", user, <<>>, EmptyDict, fault,
         DbAddHistoryEntry(Ctx(conn, fault),
                           NewEntry(user, "added", <<"a">>, <<"x">>, clock).entry))

DbRecent ==
  \E user \in Users, limit \in RepoLimitInputs, scan \in Scans(DOMAIN history),
     fault \in {NoFault, <<"find_history", 1>>} :
    Call("db_recent", user, <<>>, [limit |-> limit], fault,
         DbGetHistory(Ctx(conn, fault), user, limit, scan))

\* the operations on the songs collection
RepoNext ==
  \/ DbConnect \/ DbClose \/ DbAdd \/ DbGet \/ DbUpdate \/ DbDelete
  \/ DbList \/ DbSearch \/ Tick \/ Done

RepoSpec == Init /\ [][RepoNext]_vars

\* the operations on the history collection
AuditNext == DbConnect \/ DbClose \/ DbAppend \/ DbRecent \/ Tick \/ Done

AuditSpec == Init /\ [][AuditNext]_vars

\* every operation of the connector, in any order, within one tick of the
\* clock and MaxSongs inserts
ConnNext ==
  \/ DbConnect \/ DbClose \/ (DbAdd /\ nextId' <= MaxSongs + 1) \/ DbGet
  \/ DbUpdate \/ DbDelete \/ DbList \/ DbSearch \/ DbAppend \/ DbRecent \/ Done

ConnSpec == Init /\ [][ConnNext]_vars

(***************************************************************************)
(* The record model on one in-memory Song                                  *)
(***************************************************************************)
Req(k, vals) == {(k :> v) : v \in vals}
Opt(k, vals) == {EmptyDict} \cup Req(k, vals)

\* keyword arguments of Song(...)
SongInputs ==
  { t @@ a @@ u @@ g @@ y @@ d :
      t \in Req("title", {<<"a">>, <<"a", " ">>, <<" ", "\t">>, <<>>}),
      a \in Req("artist", {<<"x">>, <<>>}),
      u \in Req("username", {<<"u">>, <<" ">>}),
      g \in Opt("genre", {<<"g">>}),
      y \in Opt("year", {MinYear - 1, MinYear, MaxYear, MaxYear + 1}),
      d \in Opt("duration", {MinDuration - 1, MinDuration}) }

\* keyword arguments of Song.update_fields
FieldInputs ==
  { t @@ y @@ d :
      t \in Opt("title", {<<"b">>, <<" ">>}),
      y \in Opt("year", {MinYear, MaxYear + 1}),
      d \in Opt("duration", {MinDuration - 1}) }

Construct ==
  \E args \in SongInputs :
    LET r == NewSong(args, clock, clock) IN
    /\ last = Idle
    /\ mem' = IF r.exc = "none" THEN r.song ELSE mem
    /\ last' = [op |-> "construct", kw |-> args, exc |-> r.exc]
    /\ UNCHANGED <<songs, history, nextId, clock, conn, scene, procs>>

\* update_fields takes any keyword that names an attribute, the timestamps
\* included
SetFields ==
  \E kw \in FieldInputs \cup {[created_at |-> clock + 1]} :
    LET r == UpdateFields(mem, kw, clock) IN
    /\ last = Idle
    /\ mem # EmptyDict
    /\ mem' = r.song
    /\ last' = [op |-> "update_fields", kw |-> kw, exc |-> r.exc]
    /\ UNCHANGED <<songs, history, nextId, clock, conn, scene, procs>>

\* Song.from_dict(song.to_dict()) on a Song that is valid
RoundTrip ==
  LET r == FromDict(ToDict(mem), clock) IN
  /\ last = Idle
  /\ mem # EmptyDict
  /\ Validate(mem) = "ok"
  /\ last' = [op |-> "round_trip", kw |-> EmptyDict, exc |-> r.exc, ret |-> r.song]
  /\ UNCHANGED <<songs, history, nextId, clock, conn, mem, scene, procs>>

ModelNext == Construct \/ SetFields \/ RoundTrip \/ Tick \/ Done

ModelSpec == Init /\ [][ModelNext]_vars

(***************************************************************************)
(* The end-to-end scenario: seven use-cases run one after the other by one *)
(* caller on a store that starts empty.  Every use-case opens a connection *)
(* of its own (client, ping, seven index commands) before its first        *)
(* operation, so the clock has advanced by at least one tick, and by at    *)
(* most MaxGap, when the next use-case reads it.                           *)
(***************************************************************************)
Alice == <<"a", "l", "i", "c", "e">>

Song1 == <<"S", "o", "n", "g", " ", "1">>

Remix == Song1 \o <<" ", "(", "R", "e", "m", "i", "x", ")">>

Artist == <<"A", "r", "t", "i", "s", "t">>

\* the context of a use-case that starts gap ticks after the previous one
At(gap) == [Ctx(NewDb, NoFault) EXCEPT !.clock = clock + gap]

\* step n of the scenario, with result r; id is the identifier the caller
\* holds after the step
Scene(n, op, id, kw, r) ==
  /\ scene.n = n - 1
  /\ songs' = r.c.songs
  /\ history' = r.c.history
  /\ nextId' = r.c.nextId
  /\ clock' = r.c.clock
  /\ last' = Outcome(op, Alice, id, kw, NoFault, r)
  /\ scene' = [n |-> n, id |-> id]
  /\ UNCHANGED <<conn, mem, procs>>

SceneAdd ==
  \E gap \in 1..MaxGap :
    LET args == [title |-> Song1, artist |-> Artist]
    IN Scene(1, "add", <<>>, args, SvcAddSong(At(gap), Alice, args))

\* the caller reads the identifier off the listing
SceneList ==
  \E gap \in 1..MaxGap, scan \in Scans(DOMAIN songs) :
    LET args == [username |-> Alice]
        r == SvcListSongs(At(gap), args, scan)
        id == IF r.exc = "none" /\ r.ret.val # <<>> THEN r.ret.val[1].id ELSE BadId
    IN Scene(2, "list", id, args, r)

SceneUpdate ==
  \E gap \in 1..MaxGap :
    LET kw == [title |-> Remix]
    IN Scene(3, "update", scene.id, kw, SvcUpdateSong(At(gap), Alice, scene.id, kw))

SceneGet ==
  \E gap \in 1..MaxGap :
    Scene(4, "get", scene.id, EmptyDict, SvcGetSong(At(gap), Alice, scene.id))

SceneDelete ==
  \E gap \in 1..MaxGap :
    Scene(5, "delete", scene.id, EmptyDict, SvcDeleteSong(At(gap), Alice, scene.id))

SceneGetAgain ==
  \E gap \in 1..MaxGap :
    Scene(6, "get", scene.id, EmptyDict, SvcGetSong(At(gap), Alice, scene.id))

SceneRecent ==
  \E gap \in 1..MaxGap, scan \in Scans(DOMAIN history) :
    Scene(7, "history", scene.id, [limit |-> DefaultHistoryLimit],
          SvcGetHistory(At(gap), Alice, DefaultHistoryLimit, scan))

ScenarioNext ==
  \/ SceneAdd
  \/ SceneList
  \/ SceneUpdate
  \/ SceneGet
  \/ SceneDelete
  \/ SceneGetAgain
  \/ SceneRecent

ScenarioSpec == Init /\ [][ScenarioNext]_vars

(***************************************************************************)
(* Concurrent use-cases: two callers each run one delete or one update,    *)
(* each on a connection of its own, and the store serves one round trip    *)
(* at a time.  A caller's step is one round trip together with the local   *)
(* code up to the next one; its local variables are kept in procs.         *)
(***************************************************************************)
\* the connection a caller's DatabaseManager has opened
Opened == Connect(Ctx(NewDb, NoFault)).c

RaceInputs == {[title |-> <<"b">>], [year |-> 2000]}

\* the store after a round trip made with context c
Store(c) ==
  /\ songs' = c.songs
  /\ history' = c.history
  /\ nextId' = c.nextId
  /\ UNCHANGED <<clock, conn, mem, last, scene>>

\* caller p moves on to pc with its local variables changed as in loc
Goto(p, pc, loc) ==
  procs' = [procs EXCEPT ![p] =
              [k \in DOMAIN procs[p] |->
                 IF k = "pc" THEN pc
                 ELSE IF k \in DOMAIN loc THEN loc[k] ELSE procs[p][k]]]

\* caller p's use-case returns v or raises exc
Finish(p, v, exc) == Goto(p, "done", [ret |-> v, exc |-> exc])

\* SongsService.update_song / delete_song up to the first round trip
Begin(p) ==
  /\ procs[p].pc = "idle"
  /\ \E user \in Users, id \in {GenOid(i) : i \in 1..MaxSongs},
        kw \in RaceInputs \cup {EmptyDict} :
       procs' = [procs EXCEPT ![p] =
                   [pc |-> "load", op |-> IF kw = EmptyDict THEN "delete" ELSE "update",
                    user |-> user, id |-> id, kw |-> kw,
                    original_song |-> EmptyDict, song |-> EmptyDict,
                    fields |-> EmptyDict, ret |-> VNone, exc |-> "none"]]
  /\ UNCHANGED <<songs, history, nextId, clock, conn, mem, last, scene>>

\* the first get_song_by_id: of SongsDatabase.delete_song in a delete, of
\* SongsService.update_song in an update
Load(p) ==
  LET me == procs[p]
      r == DbGetSongById(Opened, me.user, me.id)
  IN /\ me.pc = "load"
     /\ Store(r.c)
     /\ IF r.exc # "none" THEN Finish(p, VNone, "DatabaseError")
        ELSE IF r.ret.kind = "none" THEN Finish(p, VBool(FALSE), "none")
        ELSE IF me.op = "delete" THEN Goto(p, "remove", [song |-> r.ret.val])
        ELSE Goto(p, "reload", [original_song |-> r.ret.val])

\* SongsDatabase.update_song: get_song_by_id, update_fields, to_dict
Reload(p) ==
  LET me == procs[p]
      r == DbGetSongById(Opened, me.user, me.id)
  IN /\ me.pc = "reload"
     /\ Store(r.c)
     /\ IF r.exc # "none" THEN Finish(p, VNone, "DatabaseError")
        ELSE IF r.ret.kind = "none" THEN Finish(p, VBool(FALSE), "none")
        ELSE Let(UpdateFields(r.ret.val, me.kw, clock), LAMBDA u :
          IF u.exc # "none" THEN Finish(p, VNone, "DatabaseError")
          ELSE Goto(p, "write", [song |-> u.song, fields |-> ToDict(u.song)]))

\* SongsDatabase.update_song: update_one and modified_count > 0
Write(p) ==
  LET me == procs[p]
      w == UpdateOne(Opened, ObjectId(me.id), me.user, me.fields)
  IN /\ me.pc = "write"
     /\ Store(w.c)
     /\ IF w.exc # "none" THEN Finish(p, VNone, "DatabaseError")
        ELSE IF w.ret > 0 THEN Goto(p, "log", EmptyDict)
        ELSE Finish(p, VBool(FALSE), "none")

\* a delete that returns the loaded song whatever delete_one reports
Remove_IgnoresCount(p) ==
  LET me == procs[p]
      w == DeleteOne(Opened, ObjectId(me.id), me.user)
  IN /\ me.pc = "remove"
     /\ Store(w.c)
     /\ IF w.exc # "none" THEN Finish(p, VNone, "DatabaseError")
        ELSE Goto(p, "log", EmptyDict)

\* SongsDatabase.delete_song: delete_one and deleted_count > 0
Remove(p) ==
  LET me == procs[p]
      w == DeleteOne(Opened, ObjectId(me.id), me.user)
  IN /\ me.pc = "remove"
     /\ Store(w.c)
     /\ IF w.exc # "none" THEN Finish(p, VNone, "DatabaseError")
        ELSE IF w.ret > 0 THEN Goto(p, "log", EmptyDict)
        ELSE Finish(p, VBool(FALSE), "none")

\* _log_history with what the use-case loaded, then return True
Log(p) ==
  LET me == procs[p]
      s == IF me.op = "delete" THEN me.song ELSE me.original_song
      h == LogHistory(Opened, me.user, IF me.op = "delete" THEN "deleted" ELSE "updated",
                      s.title, s.artist)
  IN /\ me.pc = "log"
     /\ Store(h.c)
     /\ Finish(p, VBool(TRUE), "none")

\* the records the callers race over are added before either starts
Setup ==
  /\ \A p \in Procs : procs[p].pc = "idle"
  /\ AddSong

RaceNext ==
  \/ Setup
  \/ Done
  \/ Tick
  \/ \E p \in Procs : Begin(p)
  \/ \E p \in Procs : Load(p)
  \/ \E p \in Procs : Reload(p)
  \/ \E p \in Procs : Write(p)
  \/ \E p \in Procs : Remove(p)
  \/ \E p \in Procs : Log(p)

RaceSpec == Init /\ [][RaceNext]_vars

(***************************************************************************)
(* Properties                                                              *)
(***************************************************************************)
\* the injected fault was reached: the round trip it names was made and raised
Fired(l) == l.fault # NoFault /\ Count(l.trace, l.fault[1]) >= l.fault[2]

\* a str that is empty or consists of whitespace only
Blank(str) == \A i \in 1..Len(str) : str[i] \in Whitespace

\* field values the data model forbids
BadYear(kw) == Has(kw, "year") /\ ~(kw.year >= 1000 /\ kw.year <= 3000)
BadDuration(kw) == Has(kw, "duration") /\ kw.duration < 0
BadText(kw, k) == Has(kw, k) /\ Blank(kw[k])

\* the document stored under the identifier string id, if it is user's
Owns(user, id) ==
  /\ ValidOid(id)
  /\ ObjectId(id) \in DOMAIN songs
  /\ songs[ObjectId(id)].username = user

OwnedByOther(user, id) ==
  /\ ValidOid(id)
  /\ ObjectId(id) \in DOMAIN songs
  /\ songs[ObjectId(id)].username # user

\* C1: get_song_by_id and delete_song on a connected repository, asked by an
\* owner for a record stored under another owner, return None without
\* raising, exactly as they do on the store without that record, and the
\* record stays stored unchanged.
C1_OwnerIsolation ==
  [][ ( /\ last'.op \in {"db_get", "db_delete"}
        /\ conn.connected
        /\ last'.fault = NoFault
        /\ OwnedByOther(last'.user, last'.id) )
      => LET gone == [Ctx(conn, NoFault) EXCEPT
                        !.songs = Drop(songs, {ObjectId(last'.id)})]
             twin == IF last'.op = "db_get"
                       THEN DbGetSongById(gone, last'.user, last'.id)
                       ELSE DbDeleteSong(gone, last'.user, last'.id)
         IN /\ last'.exc = "none"
            /\ last'.ret = VNone
            /\ twin.exc = "none"
            /\ twin.ret = VNone
            /\ songs' = songs ]_vars

\* C1 witness: a delete by the wrong owner has returned None and the record
\* is still there
C1_Witness ==
  /\ last.op = "db_delete"
  /\ last.exc = "none"
  /\ last.ret = VNone
  /\ OwnedByOther(last.user, last.id)

\* C2 (as claimed): on an existing record of the caller, update_song with
\* valid fields returns False when every supplied field equals the stored
\* value and True when one differs.
C2_NoOpUpdateReturnsFalse ==
  [][ ( /\ last'.op = "db_update"
        /\ conn.connected
        /\ last'.fault = NoFault
        /\ Owns(last'.user, last'.id)
        /\ DOMAIN last'.kw # {}
        /\ ~BadYear(last'.kw) /\ ~BadDuration(last'.kw)
        /\ ~BadText(last'.kw, "title") /\ ~BadText(last'.kw, "artist") )
      => LET doc == songs[ObjectId(last'.id)]
             same == \A k \in DOMAIN last'.kw : Has(doc, k) /\ doc[k] = last'.kw[k]
         IN /\ last'.exc = "none"
            /\ last'.ret = VBool(~same) ]_vars

\* C3: when the audit insert of an add, get, update or delete use-case
\* raises, the use-case raises nothing, returns what it returns with a
\* healthy audit store, and leaves the songs collection as the healthy run
\* leaves it; nothing is appended to the history.
HealthyRun(l) ==
  CASE l.op = "add" -> SvcAddSong(Ctx(NewDb, NoFault), l.user, l.kw)
    [] l.op = "get" -> SvcGetSong(Ctx(NewDb, NoFault), l.user, l.id)
    [] l.op = "update" -> SvcUpdateSong(Ctx(NewDb, NoFault), l.user, l.id, l.kw)
    [] l.op = "delete" -> SvcDeleteSong(Ctx(NewDb, NoFault), l.user, l.id)

C3_BestEffortAudit ==
  [][ ( /\ last'.op \in {"add", "get", "update", "delete"}
        /\ last'.fault[1] = "insert_history"
        /\ Fired(last') )
      => /\ last'.exc = "none"
         /\ last'.ret = HealthyRun(last').ret
         /\ HealthyRun(last').exc = "none"
         /\ songs' = HealthyRun(last').c.songs
         /\ history' = history ]_vars

\* C3 witness: an update whose audit insert raised has returned True
C3_Witness ==
  /\ last.op = "update"
  /\ last.fault = <<"insert_history", 1>>
  /\ Fired(last)
  /\ last.exc = "none"
  /\ last.ret = VBool(TRUE)

\* the round trip that is the primary operation of a use-case
Primary(op) ==
  CASE op = "add" -> "insert_one" [] op = "update" -> "update_one"
    [] op = "delete" -> "delete_one"

\* the positions of point p in a trace
Positions(trace, p) == {i \in DOMAIN trace : trace[i] = p}

\* C4: in an add, update or delete use-case the primary round trip is made
\* at most once and every audit insert comes after it; when the use-case
\* raises or returns False, no audit insert was attempted and the history
\* is unchanged; a primary round trip that raises makes the use-case raise.
C4_AuditOnlyAfterPrimarySuccess ==
  [][ last'.op \in {"add", "update", "delete"}
      => LET tr == last'.trace
             prim == Positions(tr, Primary(last'.op))
             audit == Positions(tr, "insert_history")
         IN /\ Cardinality(prim) <= 1
            /\ \A a \in audit : \E q \in prim : q < a
            /\ (last'.exc # "none" \/ last'.ret = VBool(FALSE))
                 => (audit = {} /\ history' = history)
            /\ (Fired(last') /\ last'.fault[1] = Primary(last'.op))
                 => last'.exc = "DatabaseError" ]_vars

\* C4 witness: a delete whose delete_one raised has raised
C4_Witness ==
  /\ last.op = "delete"
  /\ last.fault = <<"delete_one", 1>>
  /\ Fired(last)
  /\ last.exc = "DatabaseError"

\* C5 (as claimed): in every use-case a connection failure or a repository
\* failure reaches the caller as an exception.
C5_OnlyAuditFailureSwallowed ==
  ( /\ last.op \in {"add", "get", "update", "delete", "play"}
    /\ Fired(last)
    /\ last.fault[1] \in {"connect", "insert_one", "find_one", "update_one", "delete_one"} )
  => last.exc # "none"

\* C6: Song(...) raises ValueError exactly when title, artist or username
\* is empty or whitespace only, the year is given and outside [1000, 3000],
\* or the duration is given and negative.
C6_ConstructionValidates ==
  last.op = "construct"
  => /\ last.exc \in {"none", "ValueError"}
     /\ last.exc = "ValueError"
          <=> \/ Blank(last.kw.title) \/ Blank(last.kw.artist) \/ Blank(last.kw.username)
              \/ BadYear(last.kw) \/ BadDuration(last.kw)

\* C6 witness: a Song with year 1000 and duration 0 has been constructed
C6_Witness ==
  /\ last.op = "construct"
  /\ last.exc = "none"
  /\ Has(last.kw, "year") /\ last.kw.year = 1000
  /\ Has(last.kw, "duration") /\ last.kw.duration = 0
  /\ mem.year = 1000

\* C7 (as claimed): when update_fields raises, the Song it was called on has
\* every field, updated_at included, as before the call.
C7_UpdateFieldsAtomic ==
  [][ (last'.op = "update_fields" /\ last'.exc # "none") => mem' = mem ]_vars

InvalidUpdate(kw) ==
  BadYear(kw) \/ BadDuration(kw) \/ BadText(kw, "title") \/ BadText(kw, "artist")

\* C8: an update use-case that supplies a year outside [1000, 3000], a
\* negative duration or a blank title or artist never returns True and
\* raises when the record exists under the caller; the songs collection and
\* the history are as before.  The repository's update_song, called with the
\* same arguments on the same store, does the same.
C8_InvalidUpdateLeavesStore ==
  [][ (last'.op = "update" /\ InvalidUpdate(last'.kw))
      => LET r == DbUpdateSong([Ctx(NewDb, NoFault) EXCEPT !.db.connected = TRUE],
                               last'.user, last'.id, last'.kw)
         IN /\ last'.ret # VBool(TRUE)
            /\ Owns(last'.user, last'.id) => last'.exc # "none"
            /\ songs' = songs
            /\ history' = history
            /\ r.ret # VBool(TRUE)
            /\ Owns(last'.user, last'.id) => r.exc # "none"
            /\ r.c.songs = songs
            /\ r.c.history = history ]_vars

\* C8 witness: an update of the caller's record with a year of 999 has
\* raised with no fault injected
C8_Witness ==
  /\ last.op = "update"
  /\ last.fault = NoFault
  /\ BadYear(last.kw)
  /\ Owns(last.user, last.id)
  /\ last.exc # "none"

\* C9 (as claimed): the exception an update of the caller's record raises
\* for a year outside [1000, 3000] or a negative duration is the validation
\* error (ValueError), not the store's error class.
C9_InvalidUpdateIsValidationError ==
  ( /\ last.op = "update"
    /\ last.fault = NoFault
    /\ BadYear(last.kw) \/ BadDuration(last.kw)
    /\ Owns(last.user, last.id) )
  => last.exc = "ValueError"

\* C10 (as claimed): get, update and delete called with a string that is no
\* ObjectId raise the validation error (ValueError).
C10_BadIdIsValidationError ==
  ( /\ last.op \in {"get", "update", "delete"}
    /\ last.fault = NoFault
    /\ ~ValidOid(last.id) )
  => last.exc = "ValueError"

\* C11: a search use-case whose term is empty or whitespace only, and an
\* update use-case with no field supplied, raise ValueError for every owner
\* without a single round trip to the store (no connect, no repository
\* operation, no audit insert); the songs collection and the history are as
\* before.
C11_PreconditionsFailFast ==
  [][ ( \/ last'.op = "search" /\ Blank(last'.kw.term)
        \/ last'.op = "update" /\ DOMAIN last'.kw = {} )
      => /\ last'.exc = "ValueError"
         /\ last'.trace = <<>>
         /\ songs' = songs
         /\ history' = history ]_vars

\* C11 witness: a search for a whitespace-only term has raised ValueError
\* while the store was unreachable, and the connect was never made
C11_Witness ==
  /\ last.op = "search"
  /\ last.kw.term # <<>>
  /\ Blank(last.kw.term)
  /\ last.fault = <<"connect", 1>>
  /\ ~Fired(last)
  /\ last.exc = "ValueError"

\* the repository and audit operations of the connector
DataOps == {"db_add", "db_get", "db_update", "db_delete", "db_list", "db_search",
            "db_append", "db_recent"}

\* C12: the connector is connected only from a connect() that succeeded
\* until the next close(); a data operation called on a connector that is
\* not connected raises DatabaseError ("Database not connected") without a
\* round trip to the store, and the store is as before.
C12_NotConnectedFails ==
  [][ /\ (~conn.connected /\ conn'.connected)
           => (last'.op = "connect" /\ last'.exc = "none")
      /\ last'.op = "close" => ~conn'.connected
      /\ (last'.op \in DataOps /\ ~conn.connected)
           => /\ last'.exc = "DatabaseError"
              /\ last'.trace = <<>>
              /\ songs' = songs
              /\ history' = history
              /\ conn' = conn ]_vars

\* C12 witness: after the connector was closed, get_history has raised on a
\* store that holds an entry of the caller
C12_Witness ==
  /\ last.op = "db_recent"
  /\ conn.client /\ ~conn.connected
  /\ \E i \in DOMAIN history : history[i].username = last.user
  /\ last.exc = "DatabaseError"
  /\ last.trace = <<>>

\* C13: close() raises nothing and leaves the connector not connected; on a
\* connector that is not connected (never connected, or closed already) it
\* changes nothing, so a second close() leaves what the first one left.
C13_CloseIdempotent ==
  [][ last'.op = "close"
      => /\ last'.exc = "none"
         /\ ~conn'.connected
         /\ ~conn.connected => conn' = conn
         /\ Close(Ctx(conn', NoFault)).db = conn'
         /\ songs' = songs
         /\ history' = history ]_vars

\* C13 witness: close() has returned on a connector that never connected
C13_Witness ==
  /\ last.op = "close"
  /\ last.exc = "none"
  /\ ~conn.client
  /\ ~conn.connected

\* C14: get_songs on a connected repository, with no limit or a positive
\* one, returns Songs that are the stored documents of the owner (of every
\* owner when the username is None or empty), each once, in descending
\* order of created_at; without a limit all of them, with limit n the
\* min(n, count) of them that no left-out document is newer than.  The
\* collection is as before.
C14_ListOwnedNewestFirst ==
  [][ ( /\ last'.op = "db_list"
        /\ conn.connected
        /\ last'.fault = NoFault
        /\ Has(last'.kw, "limit") => last'.kw.limit > 0 )
      => LET args == last'.kw
             want == {o \in DOMAIN songs :
                        (Has(args, "username") /\ args.username # <<>>)
                          => songs[o].username = args.username}
             out == last'.ret.val
             n == IF Has(args, "limit") THEN Min(args.limit, Cardinality(want))
                  ELSE Cardinality(want)
         IN /\ last'.exc = "none"
            /\ last'.ret.kind = "list"
            /\ Len(out) = n
            /\ \A i \in 1..Len(out) :
                 /\ out[i].id \in want
                 /\ ToDict(out[i]) = songs[out[i].id]
            /\ \A i, j \in 1..Len(out) :
                 i < j => /\ out[i].id # out[j].id
                          /\ out[i].created_at >= out[j].created_at
            /\ \A o \in want : \A i \in 1..Len(out) :
                 (\A j \in 1..Len(out) : out[j].id # o)
                   => songs[o].created_at <= out[i].created_at
            /\ songs' = songs ]_vars

\* C14 witness: of two records of one owner created at different times,
\* get_songs with limit 1 has returned the newer one
C14_Witness ==
  /\ last.op = "db_list"
  /\ last.exc = "none"
  /\ Has(last.kw, "limit") /\ last.kw.limit = 1
  /\ Len(last.ret.val) = 1
  /\ \E o \in DOMAIN songs :
       /\ songs[o].username = last.user
       /\ songs[o].created_at < last.ret.val[1].created_at

\* C15 (as claimed): a list use-case given a limit of zero or less, for an
\* owner who has records, raises (the limit is rejected) instead of
\* returning the records.
C15_NonPositiveLimitRejected ==
  ( /\ last.op = "list"
    /\ last.fault = NoFault
    /\ Has(last.kw, "limit") /\ last.kw.limit <= 0
    /\ \E o \in DOMAIN songs : songs[o].username = last.user )
  => last.exc # "none"

\* term occurs in text when case is ignored
Contains(text, term) ==
  \E off \in 0..(Len(text) - Len(term)) :
    \A i \in 1..Len(term) : Lower(term[i]) = Lower(text[off + i])

\* C16 (as claimed): search_songs on a connected repository returns, without
\* raising, Songs that are exactly the stored documents of the owner whose
\* title or artist contains the term as a substring when case is ignored.
C16_SearchIsSubstringMatch ==
  ( /\ last.op = "db_search"
    /\ conn.connected
    /\ last.fault = NoFault )
  => /\ last.exc = "none"
     /\ {last.ret.val[i].id : i \in 1..Len(last.ret.val)}
          = {o \in DOMAIN songs :
               /\ songs[o].username = last.user
               /\ \/ Contains(songs[o].title, last.kw.term)
                  \/ Contains(songs[o].artist, last.kw.term)}

\* C17: delete_song on a connected repository, asked by the owner of a stored
\* record, returns a Song that serialises to the document stored before the
\* call and removes that document and no other.  An identifier that names no
\* document makes get_song_by_id and delete_song return None with the
\* collection unchanged, and an identifier the store has handed out and that
\* names no document never names one again.
C17_DeleteReturnsSnapshot ==
  [][ /\ ( /\ last'.op = "db_delete"
            /\ conn.connected
            /\ last'.fault = NoFault
            /\ Owns(last'.user, last'.id) )
          => /\ last'.exc = "none"
             /\ last'.ret.kind = "song"
             /\ ToDict(last'.ret.val) = songs[ObjectId(last'.id)]
             /\ songs' = Drop(songs, {ObjectId(last'.id)})
      /\ ( /\ last'.op \in {"db_get", "db_delete"}
            /\ conn.connected
            /\ last'.fault = NoFault
            /\ ValidOid(last'.id)
            /\ ObjectId(last'.id) \notin DOMAIN songs )
          => /\ last'.exc = "none"
             /\ last'.ret = VNone
             /\ songs' = songs
      /\ \A n \in 1..(nextId - 1) :
            GenOid(n) \notin DOMAIN songs => GenOid(n) \notin DOMAIN songs' ]_vars

\* C17 witness: a delete has returned the snapshot of one of two stored
\* records; the other is still stored and a later insert has not brought the
\* deleted identifier back
C17_Witness ==
  /\ last.op = "db_delete"
  /\ last.exc = "none"
  /\ last.ret.kind = "song"
  /\ ObjectId(last.id) \notin DOMAIN songs
  /\ songs # EmptyDict

\* C18: an update use-case that supplies a field, on a well-formed
\* identifier that names no record or a record of another owner, returns
\* False without raising, for valid and invalid field values alike; the
\* songs collection and the history are as before and no audit insert is
\* attempted.  The repository's update_song, called with the same arguments
\* on the same store, does the same.
C18_UpdateMissReturnsFalse ==
  [][ ( /\ last'.op = "update"
        /\ last'.fault = NoFault
        /\ DOMAIN last'.kw # {}
        /\ ValidOid(last'.id)
        /\ ~Owns(last'.user, last'.id) )
      => LET r == DbUpdateSong([Ctx(NewDb, NoFault) EXCEPT !.db.connected = TRUE],
                               last'.user, last'.id, last'.kw)
         IN /\ last'.exc = "none"
            /\ last'.ret = VBool(FALSE)
            /\ songs' = songs
            /\ history' = history
            /\ Count(last'.trace, "insert_history") = 0
            /\ Count(last'.trace, "update_one") = 0
            /\ r.exc = "none"
            /\ r.ret = VBool(FALSE)
            /\ r.c.songs = songs
            /\ r.c.history = history ]_vars

\* C18 witness: an update of another owner's record has returned False
C18_Witness ==
  /\ last.op = "update"
  /\ last.fault = NoFault
  /\ DOMAIN last.kw # {}
  /\ OwnedByOther(last.user, last.id)
  /\ last.exc = "none"
  /\ last.ret = VBool(FALSE)

\* the entries of the history that belong to user
EntriesOf(user) == {i \in DOMAIN history : history[i].username = user}

\* C19 (as claimed): get_history on a connected repository returns entries
\* of the owner only, each a stored entry and each once, in descending order
\* of timestamp; they are min(limit, count) in number and no left-out entry
\* of the owner is newer than a returned one.
C19_RecentNewestFirst ==
  ( /\ last.op = "db_recent"
    /\ conn.connected
    /\ last.fault = NoFault )
  => LET out == last.ret.val
         mine == EntriesOf(last.user)
     IN /\ last.exc = "none"
        /\ last.ret.kind = "list"
        /\ Len(out) = Min(last.kw.limit, Cardinality(mine))
        /\ \A i \in 1..Len(out) :
             /\ out[i].id \in mine
             /\ out[i].username = last.user
             /\ Put(EntryToDict(out[i]), "_id", out[i].id) = history[out[i].id]
        /\ \A i, j \in 1..Len(out) :
             i < j => /\ out[i].id # out[j].id
                      /\ out[i].timestamp >= out[j].timestamp
        /\ \A e \in mine : \A i \in 1..Len(out) :
             (\A j \in 1..Len(out) : out[j].id # e)
               => history[e].timestamp <= out[i].timestamp

\* C20: no step of any use-case changes or removes an entry of the history:
\* the history after a step is the history before it, possibly with entries
\* appended.  A history use-case whose limit covers the owner's entries
\* returns every one of them as stored, whatever has since happened to the
\* songs they name.
C20_AuditAppendOnly ==
  [][ /\ Len(history') >= Len(history)
      /\ SubSeq(history', 1, Len(history)) = history
      /\ ( /\ last'.op = "history"
            /\ last'.fault = NoFault
            /\ last'.kw.limit >= Cardinality(EntriesOf(last'.user)) )
          => /\ last'.exc = "none"
             /\ {last'.ret.val[i].id : i \in 1..Len(last'.ret.val)}
                  = EntriesOf(last'.user)
             /\ \A i \in 1..Len(last'.ret.val) :
                  LET e == last'.ret.val[i]
                  IN Put(EntryToDict(e), "_id", e.id) = history[e.id] ]_vars

\* C20 witness: after the song was deleted, a history use-case has returned
\* the entries of its addition and of its deletion, title included
C20_Witness ==
  /\ last.op = "history"
  /\ last.exc = "none"
  /\ songs = EmptyDict
  /\ \E i, j \in 1..Len(last.ret.val) :
       /\ last.ret.val[i].action = "deleted"
       /\ last.ret.val[j].action = "added"
       /\ last.ret.val[i].song_title = <<"a">>

\* the action a use-case logs
ActionOf(op) ==
  CASE op = "add" -> "added" [] op = "update" -> "updated"
    [] op = "delete" -> "deleted" [] op = "get" -> "viewed" [] op = "play" -> "played"

\* the use-case has succeeded: True, or the Song for a get
Succeeded(l) ==
  /\ l.exc = "none"
  /\ IF l.op = "get" THEN l.ret.kind = "song" ELSE l.ret = VBool(TRUE)

\* C21 (as claimed): a successful add, update, delete, get or play use-case
\* with a healthy audit store appends exactly one entry to the history, with
\* the caller's username, the action of the use-case and the song's title
\* and artist; list, search and history use-cases append none.
C21_OneAuditEntryPerUseCase ==
  [][ /\ ( /\ last'.op \in {"add", "update", "delete", "get", "play"}
            /\ last'.fault = NoFault
            /\ Succeeded(last') )
          => /\ Len(history') = Len(history) + 1
             /\ SubSeq(history', 1, Len(history)) = history
             /\ LET e == history'[Len(history')]
                    title == IF last'.op = "add" THEN Strip(last'.kw.title)
                             ELSE songs[ObjectId(last'.id)].title
                    artist == IF last'.op = "add" THEN Strip(last'.kw.artist)
                              ELSE songs[ObjectId(last'.id)].artist
                IN /\ e.username = last'.user
                   /\ e.action = ActionOf(last'.op)
                   /\ e.song_title = title
                   /\ e.song_artist = artist
      /\ last'.op \in {"list", "search", "history"} => history' = history ]_vars

\* C23: every document of the songs collection has a title, an artist and a
\* username that are not empty and have no whitespace at either end, a year
\* that is absent or within [1000, 3000] and a duration that is absent or
\* not negative.
C23_StoredDocumentsValid ==
  \A o \in DOMAIN songs :
    LET doc == songs[o]
    IN /\ \A k \in {"title", "artist", "username"} :
            Has(doc, k) /\ doc[k] # <<>> /\ Strip(doc[k]) = doc[k]
       /\ Has(doc, "year") => (doc.year >= 1000 /\ doc.year <= 3000)
       /\ Has(doc, "duration") => doc.duration >= 0

\* C23 witness: a song added with a padded title is stored with the title
\* trimmed
C23_Witness ==
  /\ last.op = "add"
  /\ last.exc = "none"
  /\ last.kw.title = <<"a", " ">>
  /\ \E o \in DOMAIN songs : songs[o].title = <<"a">>

C30_IdentityFieldsImmutable ==
  [][ ( /\ last'.op = "db_update"
        /\ conn.connected
        /\ Owns(last'.user, last'.id)
        /\ last'.exc = "none"
        /\ last'.ret = VBool(TRUE) )
      => LET o == ObjectId(last'.id)
         IN /\ o \in DOMAIN songs'
            /\ songs'[o].username = songs[o].username
            /\ songs'[o]["_id"] = songs[o]["_id"]
            /\ songs'[o].created_at = songs[o].created_at ]_vars

\* C24 (as claimed): the Song in memory has updated_at >= created_at after
\* its construction and after every update_fields, whatever keywords are
\* supplied.
C24_UpdatedNotBeforeCreated ==
  mem # EmptyDict => mem.updated_at >= mem.created_at

\* C25 (as claimed): for a valid Song, from_dict(to_dict(song)) raises
\* nothing and has every attribute other than id present or absent as in the
\* Song and with the same value, and to_dict leaves an absent genre, year or
\* duration out of the document.
C25_RoundTripLossless ==
  last.op = "round_trip"
  => /\ last.exc = "none"
     /\ \A k \in SongAttrs \ {"id"} :
          /\ Has(last.ret, k) <=> Has(mem, k)
          /\ Has(mem, k) => last.ret[k] = mem[k]
     /\ \A k \in {"genre", "year", "duration"} :
          ~Has(mem, k) => ~Has(ToDict(mem), k)

\* C22: the end-to-end scenario on an empty store, each use-case starting at
\* least one clock tick after the one before: add succeeds; list returns
\* exactly the added record; update to the new title returns true; get returns
\* the new title; delete succeeds on the record with the new title; get then
\* returns absent; recent(alice, 10) returns exactly four entries, newest
\* first, "deleted" before "updated" before "added"
C22_EndToEndScenario ==
  /\ scene.n >= 1 => last.exc = "none"
  /\ scene.n = 1 => last.ret = VBool(TRUE)
  /\ scene.n = 2 =>
       /\ Len(last.ret.val) = 1
       /\ last.ret.val[1].title = Song1
       /\ last.ret.val[1].artist = Artist
       /\ last.ret.val[1].username = Alice
       /\ ValidOid(scene.id)
  /\ scene.n = 3 => last.ret = VBool(TRUE)
  /\ scene.n = 4 => last.ret.kind = "song" /\ last.ret.val.title = Remix
  /\ scene.n = 5 =>
       /\ last.ret = VBool(TRUE)
       /\ history[Len(history)].action = "deleted"
       /\ history[Len(history)].song_title = Remix
       /\ songs = EmptyDict
  /\ scene.n = 6 => last.ret = VNone
  /\ scene.n = 7 =>
       /\ Len(last.ret.val) = 4
       /\ [i \in 1..4 |-> last.ret.val[i].action]
            = <<"deleted", "viewed", "updated", "added">>
       /\ \A i \in 1..3 : last.ret.val[i].timestamp > last.ret.val[i + 1].timestamp

\* the scenario has run to its end and the history was read in another
\* order than it was written
C22_Witness ==
  /\ scene.n = 7
  /\ Len(last.ret.val) = 4
  /\ Len(history) = 4
  /\ history[1].action = "added"
  /\ history[4].action = "deleted"

\* caller p runs, or has run, use-case op
Runs(p, op) == procs[p].pc # "idle" /\ procs[p].op = op

\* caller p's use-case has returned b
Returned(p, b) == procs[p].pc = "done" /\ procs[p].exc = "none" /\ procs[p].ret = VBool(b)

\* caller p's use-case has succeeded or is about to: it logs, then returns True
Won(p) == procs[p].pc = "log" \/ Returned(p, TRUE)

\* C26: of two delete use-cases on the same identifier whose round trips
\* interleave, at most one gets the deleted record and returns success, a
\* delete that has ended without success returned false, and there is one
\* "deleted" entry per successful delete, so at most one per record
C26_ConcurrentDeletesOnce ==
  /\ \A p \in Procs, q \in Procs :
       (p # q /\ Runs(p, "delete") /\ Runs(q, "delete") /\ procs[p].id = procs[q].id)
       => ~(Won(p) /\ Won(q))
  /\ \A p \in Procs :
       (Runs(p, "delete") /\ procs[p].pc = "done")
       => Returned(p, TRUE) \/ Returned(p, FALSE)
  /\ Cardinality({i \in DOMAIN history : history[i].action = "deleted"})
       = Cardinality({p \in Procs : Runs(p, "delete") /\ Returned(p, TRUE)})

\* both callers loaded the record before either removed it; one delete
\* succeeded and the other, holding the record it loaded, returned false
C26_Witness ==
  \E p \in Procs, q \in Procs :
    /\ p # q
    /\ Runs(p, "delete") /\ Runs(q, "delete")
    /\ procs[p].id = procs[q].id /\ procs[p].user = procs[q].user
    /\ Returned(p, TRUE)
    /\ Returned(q, FALSE)
    /\ procs[q].song # EmptyDict

\* C27: when two updates of the same record that set disjoint fields
\* interleave and both return true, the stored record carries both new values
C27_ConcurrentUpdatesMerge ==
  \A p \in Procs, q \in Procs :
    ( /\ p # q
      /\ Runs(p, "update") /\ Runs(q, "update")
      /\ procs[p].id = procs[q].id /\ procs[p].user = procs[q].user
      /\ DOMAIN procs[p].kw \cap DOMAIN procs[q].kw = {}
      /\ Returned(p, TRUE) /\ Returned(q, TRUE)
      /\ ObjectId(procs[p].id) \in DOMAIN songs )
    => \A r \in {p, q} : \A k \in DOMAIN procs[r].kw :
         /\ Has(songs[ObjectId(procs[p].id)], k)
         /\ songs[ObjectId(procs[p].id)][k] = procs[r].kw[k]

\* C28: an update whose record is gone when its write reaches the store
\* returns false, creates no document and appends no entry, and an
\* identifier that has left the store never comes back
C28_NoResurrection ==
  [][ /\ \A p \in Procs :
           ( /\ procs[p].pc = "write"
             /\ procs'[p].pc # "write"
             /\ ObjectId(procs[p].id) \notin DOMAIN songs )
           => /\ procs'[p].pc = "done"
              /\ procs'[p].exc = "none"
              /\ procs'[p].ret = VBool(FALSE)
              /\ songs' = songs
              /\ history' = history
      /\ \A i \in 1..(nextId - 1) :
           GenOid(i) \notin DOMAIN songs => GenOid(i) \notin DOMAIN songs' ]_vars

\* an update had its fields ready when a delete removed the record; the
\* update returned false and the record is absent
C28_Witness ==
  \E p \in Procs, q \in Procs :
    /\ Runs(p, "update") /\ Runs(q, "delete")
    /\ procs[p].id = procs[q].id
    /\ Returned(q, TRUE)
    /\ procs[p].fields # EmptyDict
    /\ Returned(p, FALSE)
    /\ ObjectId(procs[p].id) \notin DOMAIN songs
    /\ \A i \in DOMAIN history : history[i].action # "updated"

====
